---- MODULE Spec2Model ----
(***************************************************************************)
(* The block buffer of the ORC C++ writer (c++/src/BlockBuffer.cc): a      *)
(* growable sequence of pool-allocated blocks, its write-acquisition       *)
(* (getNextBlock), random access (getBlock), growth (reserve, resize) and  *)
(* chunked flush (writeTo).  The state is one buffer, its memory pool and  *)
(* the outcome of the last call.                                           *)
(*                                                                         *)
(* The buffer never inspects a byte: it only hands out views and copies    *)
(* ranges.  A byte is therefore represented by the memory cell             *)
(* <<address, offset>> it was read from, which stands for whatever value   *)
(* that cell holds (written by the producer or left by the pool).          *)
(***************************************************************************)
EXTENDS Integers, Sequences, FiniteSets, TLC

\* ---------------------------------------------------------------- bounds
MaxBlockSize == 2
MaxBlocks == 3
MaxNatural == 3

\* ------------------------------------------------------ program constants
MAX_CHUNK_SIZE == 1073741824
NullPtr == 0

\* The pool holds the blocks and one scratch chunk.
PoolCap == MaxBlocks + 1
\* The output->write call that raises (0: none).
FailAts == {0, 1, 2}
\* metrics: null (-1) or a counter holding 1.
MetricsArgs == {-1, 1}
Addrs == 1..PoolCap
\* The block sizes tried: 0 (rejected), the small ones, and the 64 of the
\* documented scenarios.
BlockSizes == (0..MaxBlockSize) \cup {64}
NoView == [addr |-> NullPtr, off |-> 0, size |-> 0]

Min(a, b) == IF a <= b THEN a ELSE b

VARIABLES
  blockSize,        \* blockSize_
  blocks,           \* blocks_: the addresses of the owned blocks, in order
  currentSize,      \* currentSize_
  currentCapacity,  \* currentCapacity_
  live,             \* the pool's outstanding allocations
  status,           \* "live", "ctor_failed", "destroyed", "crashed"
  last,             \* the last call: its name, argument, error, view, sink writes
  hist,             \* what the producer has done so far
  sharedMetrics,    \* the WriterMetrics several flushing threads share
  flush,            \* the flush each of those threads is in
  readBuffers,      \* ZeroCopyAdapter.readBuffers
  in                \* ZeroCopyAdapter.in: the stream and the calls it received

vars == <<blockSize, blocks, currentSize, currentCapacity, live, status, last,
          hist, sharedMetrics, flush, readBuffers, in>>

\* The buffer under study and the result of its last call.
bufferVars == <<blockSize, blocks, currentSize, currentCapacity, live, status,
                last, hist>>
\* The threads flushing their own buffers.
flushVars == <<sharedMetrics, flush>>
\* The zero-copy read adapter.
adapterVars == <<readBuffers, in>>

\* ------------------------------------------------------------ memory pool
FreeAddrs(lv) == Addrs \ lv

\* MemoryPool::malloc: an address not outstanding, or null when the pool
\* cannot (ok = FALSE) or is exhausted.
malloc(lv, ok) ==
  IF ok /\ FreeAddrs(lv) # {}
  THEN CHOOSE a \in FreeAddrs(lv) : \A b \in FreeAddrs(lv) : a <= b
  ELSE NullPtr

\* MemoryPool::free
free(lv, p) == lv \ {p}

\* ------------------------------------------------------- the call's frame
\* The members a call reads and writes, the blocks the pool will still
\* supply to this call (supply), the malloc calls made so far and the error.
Frame(k) ==
  [blocks |-> blocks, currentSize |-> currentSize,
   currentCapacity |-> currentCapacity, live |-> live,
   supply |-> k, mallocs |-> 0, err |-> "none"]

\* BlockBuffer::getBlockNumber
getBlockNumber(s) == (s.currentSize + blockSize - 1) \div blockSize

\* reserve that also allocates when the capacity equals the request.
RECURSIVE reserveEager(_, _)
reserveEager(s, newCapacity) ==
  IF s.currentCapacity <= newCapacity
  THEN LET newBlockPtr == malloc(s.live, s.supply > 0)
       IN IF newBlockPtr # NullPtr
          THEN reserveEager([s EXCEPT !.blocks = Append(@, newBlockPtr),
                                      !.currentCapacity = @ + blockSize,
                                      !.live = @ \cup {newBlockPtr},
                                      !.supply = @ - 1,
                                      !.mallocs = @ + 1], newCapacity)
          ELSE [s EXCEPT !.mallocs = @ + 1]
  ELSE s

\* reserve that counts a block it did not get.
RECURSIVE reserveCountsNull(_, _)
reserveCountsNull(s, newCapacity) ==
  IF s.currentCapacity < newCapacity
  THEN LET newBlockPtr == malloc(s.live, s.supply > 0)
       IN IF newBlockPtr # NullPtr
          THEN reserveCountsNull([s EXCEPT !.blocks = Append(@, newBlockPtr),
                                           !.currentCapacity = @ + blockSize,
                                           !.live = @ \cup {newBlockPtr},
                                           !.supply = @ - 1,
                                           !.mallocs = @ + 1], newCapacity)
          ELSE [s EXCEPT !.mallocs = @ + 1, !.currentCapacity = @ + blockSize]
  ELSE s

\* BlockBuffer::reserve
RECURSIVE reserve(_, _)
reserve(s, newCapacity) ==
  IF s.currentCapacity < newCapacity
  THEN LET newBlockPtr == malloc(s.live, s.supply > 0)
       IN IF newBlockPtr # NullPtr
          THEN reserve([s EXCEPT !.blocks = Append(@, newBlockPtr),
                                 !.currentCapacity = @ + blockSize,
                                 !.live = @ \cup {newBlockPtr},
                                 !.supply = @ - 1,
                                 !.mallocs = @ + 1], newCapacity)
          ELSE [s EXCEPT !.mallocs = @ + 1]
  ELSE s

\* resize that sets the size without checking the capacity reached.
resizeUnchecked(s, size) ==
  LET r == reserve(s, size)
  IN [r EXCEPT !.currentSize = size]

\* BlockBuffer::resize
resize(s, size) ==
  LET r == reserve(s, size)
  IN IF r.currentCapacity >= size
     THEN [r EXCEPT !.currentSize = size]
     ELSE [r EXCEPT !.err = "logic_error"]

\* getBlock that forgets the last block may be partly used.
getBlockFullSize(s, blockIndex) ==
  IF blockIndex >= getBlockNumber(s)
  THEN [err |-> "out_of_range", view |-> NoView]
  ELSE [err |-> "none",
        view |-> [addr |-> s.blocks[blockIndex + 1], off |-> 0,
                  size |-> blockSize]]

\* BlockBuffer::getBlock
getBlock(s, blockIndex) ==
  IF blockIndex >= getBlockNumber(s)
  THEN [err |-> "out_of_range", view |-> NoView]
  ELSE [err |-> "none",
        view |-> [addr |-> s.blocks[blockIndex + 1], off |-> 0,
                  size |-> Min(s.currentSize - blockIndex * blockSize, blockSize)]]

\* getNextBlock that grows by two blocks when it has to grow.
getNextBlockGrowTwo(s) ==
  IF s.currentSize < s.currentCapacity
  THEN [s |-> [s EXCEPT !.currentSize = (s.currentSize \div blockSize + 1) * blockSize],
        view |-> [addr |-> s.blocks[s.currentSize \div blockSize + 1],
                  off |-> s.currentSize % blockSize,
                  size |-> blockSize - (s.currentSize % blockSize)]]
  ELSE LET r0 == reserve(s, s.currentSize + 2 * blockSize)
           r == resize(r0, s.currentSize + blockSize)
       IN IF r.err # "none"
          THEN [s |-> r, view |-> NoView]
          ELSE [s |-> r,
                view |-> [addr |-> r.blocks[s.currentSize \div blockSize + 1],
                          off |-> 0, size |-> blockSize]]

\* getNextBlock that swallows the resize error and returns no view.
getNextBlockSwallow(s) ==
  IF s.currentSize < s.currentCapacity
  THEN [s |-> [s EXCEPT !.currentSize = (s.currentSize \div blockSize + 1) * blockSize],
        view |-> [addr |-> s.blocks[s.currentSize \div blockSize + 1],
                  off |-> s.currentSize % blockSize,
                  size |-> blockSize - (s.currentSize % blockSize)]]
  ELSE LET r == resize(s, s.currentSize + blockSize)
       IN IF r.err # "none"
          THEN [s |-> [r EXCEPT !.err = "none"], view |-> NoView]
          ELSE [s |-> r,
                view |-> [addr |-> r.blocks[Len(r.blocks)], off |-> 0,
                          size |-> blockSize]]

\* getNextBlock that returns the first block, not the last, after growing.
getNextBlockFront(s) ==
  IF s.currentSize < s.currentCapacity
  THEN [s |-> [s EXCEPT !.currentSize = (s.currentSize \div blockSize + 1) * blockSize],
        view |-> [addr |-> s.blocks[s.currentSize \div blockSize + 1],
                  off |-> s.currentSize % blockSize,
                  size |-> blockSize - (s.currentSize % blockSize)]]
  ELSE LET r == resize(s, s.currentSize + blockSize)
       IN IF r.err # "none"
          THEN [s |-> r, view |-> NoView]
          ELSE [s |-> r,
                view |-> [addr |-> r.blocks[1], off |-> 0, size |-> blockSize]]

\* getNextBlock that forgets to step to the next block boundary.
getNextBlockNoAdvance(s) ==
  IF s.currentSize < s.currentCapacity
  THEN [s |-> [s EXCEPT !.currentSize = (s.currentSize \div blockSize) * blockSize],
        view |-> [addr |-> s.blocks[s.currentSize \div blockSize + 1],
                  off |-> s.currentSize % blockSize,
                  size |-> blockSize - (s.currentSize % blockSize)]]
  ELSE LET r == resize(s, s.currentSize + blockSize)
       IN IF r.err # "none"
          THEN [s |-> r, view |-> NoView]
          ELSE [s |-> r,
                view |-> [addr |-> r.blocks[Len(r.blocks)], off |-> 0,
                          size |-> blockSize]]

\* getNextBlock that returns the partly used block from its start.
getNextBlockFromStart(s) ==
  IF s.currentSize < s.currentCapacity
  THEN [s |-> [s EXCEPT !.currentSize = (s.currentSize \div blockSize + 1) * blockSize],
        view |-> [addr |-> s.blocks[s.currentSize \div blockSize + 1],
                  off |-> 0, size |-> blockSize]]
  ELSE LET r == resize(s, s.currentSize + blockSize)
       IN IF r.err # "none"
          THEN [s |-> r, view |-> NoView]
          ELSE [s |-> r,
                view |-> [addr |-> r.blocks[Len(r.blocks)], off |-> 0,
                          size |-> blockSize]]

\* BlockBuffer::getNextBlock
getNextBlock(s) ==
  IF s.currentSize < s.currentCapacity
  THEN [s |-> [s EXCEPT !.currentSize = (s.currentSize \div blockSize + 1) * blockSize],
        view |-> [addr |-> s.blocks[s.currentSize \div blockSize + 1],
                  off |-> s.currentSize % blockSize,
                  size |-> blockSize - (s.currentSize % blockSize)]]
  ELSE LET r == resize(s, s.currentSize + blockSize)
       IN IF r.err # "none"
          THEN [s |-> r, view |-> NoView]
          ELSE [s |-> r,
                view |-> [addr |-> r.blocks[Len(r.blocks)], off |-> 0,
                          size |-> blockSize]]

\* ------------------------------------------------------------ writeTo
\* memcpy(chunk + chunkOffset, data, Len(data)) on the scratch chunk, of
\* which only the bytes written so far are kept.
memcpy(chunk, chunkOffset, data) ==
  [j \in 1..(IF Len(chunk) > chunkOffset + Len(data)
             THEN Len(chunk) ELSE chunkOffset + Len(data)) |->
     IF j > chunkOffset /\ j <= chunkOffset + Len(data)
     THEN data[j - chunkOffset] ELSE chunk[j]]

\* The bytes of a (pointer, length) range of pool memory.
Range(addr, off, len) == [j \in 1..len |-> <<addr, off + j - 1>>]

\* The block loop of writeTo's general path.  L holds i, blockOffset, the
\* chunk, chunkOffset and the calls output->write has received.
RECURSIVE copyLoop(_, _, _)
copyLoop(s, chunkSize, L) ==
  IF L.i >= getBlockNumber(s) THEN L
  ELSE LET block == getBlock(s, L.i).view
       IN IF L.blockOffset >= block.size
          THEN copyLoop(s, chunkSize, [L EXCEPT !.i = @ + 1, !.blockOffset = 0])
          ELSE LET copySize == Min(chunkSize - L.chunkOffset,
                                   block.size - L.blockOffset)
                   chunk1 == memcpy(L.chunk, L.chunkOffset,
                                    Range(block.addr, block.off + L.blockOffset,
                                          copySize))
                   offset1 == L.chunkOffset + copySize
               IN IF offset1 >= chunkSize
                  THEN copyLoop(s, chunkSize,
                         [L EXCEPT !.blockOffset = @ + copySize,
                                   !.chunk = chunk1, !.chunkOffset = 0,
                                   !.writes = Append(@, SubSeq(chunk1, 1, chunkSize))])
                  ELSE copyLoop(s, chunkSize,
                         [L EXCEPT !.blockOffset = @ + copySize,
                                   !.chunk = chunk1, !.chunkOffset = offset1])

\* The general path without its final write of the remainder.
generalWritesNoTail(s, chunkSize) ==
  copyLoop(s, chunkSize,
           [i |-> 0, blockOffset |-> 0, chunk |-> <<>>,
            chunkOffset |-> 0, writes |-> <<>>]).writes

\* The general path with a final write even when nothing remains.
generalWritesAlwaysTail(s, chunkSize) ==
  LET L == copyLoop(s, chunkSize,
                    [i |-> 0, blockOffset |-> 0, chunk |-> <<>>,
                     chunkOffset |-> 0, writes |-> <<>>])
  IN Append(L.writes, SubSeq(L.chunk, 1, L.chunkOffset))

\* The output->write calls of the general path, in order.
generalWrites(s, chunkSize) ==
  LET L == copyLoop(s, chunkSize,
                    [i |-> 0, blockOffset |-> 0, chunk |-> <<>>,
                     chunkOffset |-> 0, writes |-> <<>>])
  IN IF L.chunkOffset # 0
     THEN Append(L.writes, SubSeq(L.chunk, 1, L.chunkOffset))
     ELSE L.writes

\* The output->write call of the fast path.
fastWrites(s) ==
  LET block == getBlock(s, 0).view
  IN <<Range(block.addr, block.off, block.size)>>

\* A chunk size that takes a natural write size of 0 for "no preference".
chunkSizeClamped(naturalSize) ==
  IF naturalSize = 0 THEN MAX_CHUNK_SIZE ELSE Min(naturalSize, MAX_CHUNK_SIZE)

\* The chunk size writeTo works with.
chunkSizeOf(naturalSize) == Min(naturalSize, MAX_CHUNK_SIZE)

\* writeTo that counts each write as it is issued, so that the writes of a
\* flush that fails have been counted.
writeToCountsEagerly(s, naturalSize, failAt, hasMetrics, nullWorks) ==
  LET chunkSize == chunkSizeOf(naturalSize)
      blockNumber == getBlockNumber(s)
      fast == blockNumber = 1 /\ s.currentSize <= chunkSize
      chunk == IF fast THEN NullPtr ELSE malloc(s.live, s.supply > 0)
      calls == IF fast THEN fastWrites(s) ELSE generalWrites(s, chunkSize)
      raised == failAt \in 1..Len(calls)
      base == [err |-> "none", writes |-> <<>>, live |-> s.live, mallocs |-> 0,
               added |-> 0, addAfter |-> -1, chunk |-> NullPtr, died |-> FALSE]
  IN IF s.currentSize = 0 THEN base
     ELSE IF chunkSize = 0 THEN [base EXCEPT !.err = "logic_error"]
     ELSE IF ~fast /\ chunk = NullPtr /\ ~nullWorks
          THEN [base EXCEPT !.err = "segv", !.mallocs = 1, !.died = TRUE]
     ELSE IF raised
          THEN [base EXCEPT !.err = "io_error",
                            !.writes = SubSeq(calls, 1, failAt - 1),
                            !.mallocs = IF fast THEN 0 ELSE 1,
                            !.chunk = chunk,
                            !.live = IF fast \/ chunk = NullPtr THEN s.live
                                     ELSE s.live \cup {chunk},
                            !.added = IF hasMetrics THEN failAt - 1 ELSE 0,
                            !.addAfter = IF hasMetrics THEN 0 ELSE -1]
     ELSE [base EXCEPT !.writes = calls,
                       !.mallocs = IF fast THEN 0 ELSE 1,
                       !.chunk = chunk,
                       !.live = IF fast \/ chunk = NullPtr THEN s.live
                                ELSE free(s.live \cup {chunk}, chunk),
                       !.added = IF hasMetrics THEN Len(calls) ELSE 0,
                       !.addAfter = IF hasMetrics THEN 0 ELSE -1]

\* BlockBuffer::writeTo.  naturalSize is output->getNaturalWriteSize(),
\* failAt the output->write call that raises (0: none), hasMetrics whether
\* metrics is non-null, s.supply whether the pool supplies the chunk, and
\* nullWorks the outcome of copying through a null chunk: the process dies
\* or the copy goes through.  The result: the error, the writes the sink
\* received, the outstanding allocations, the malloc calls made, the
\* amount added to IOCount, the number of writes issued before
\* IOCount.fetch_add was called (-1: it was not called), the chunk malloc
\* returned and whether the process died.
writeTo(s, naturalSize, failAt, hasMetrics, nullWorks) ==
  LET chunkSize == chunkSizeOf(naturalSize)
      blockNumber == getBlockNumber(s)
      fast == blockNumber = 1 /\ s.currentSize <= chunkSize
      chunk == IF fast THEN NullPtr ELSE malloc(s.live, s.supply > 0)
      calls == IF fast THEN fastWrites(s) ELSE generalWrites(s, chunkSize)
      raised == failAt \in 1..Len(calls)
      base == [err |-> "none", writes |-> <<>>, live |-> s.live, mallocs |-> 0,
               added |-> 0, addAfter |-> -1, chunk |-> NullPtr, died |-> FALSE]
  IN IF s.currentSize = 0 THEN base
     ELSE IF chunkSize = 0 THEN [base EXCEPT !.err = "logic_error"]
     ELSE IF ~fast /\ chunk = NullPtr /\ ~nullWorks
          THEN [base EXCEPT !.err = "segv", !.mallocs = 1, !.died = TRUE]
     ELSE IF raised
          THEN [base EXCEPT !.err = "io_error",
                            !.writes = SubSeq(calls, 1, failAt - 1),
                            !.mallocs = IF fast THEN 0 ELSE 1,
                            !.chunk = chunk,
                            !.live = IF fast \/ chunk = NullPtr THEN s.live
                                     ELSE s.live \cup {chunk}]
     ELSE [base EXCEPT !.writes = calls,
                       !.mallocs = IF fast THEN 0 ELSE 1,
                       !.chunk = chunk,
                       !.live = IF fast \/ chunk = NullPtr THEN s.live
                                ELSE free(s.live \cup {chunk}, chunk),
                       !.added = IF hasMetrics THEN Len(calls) ELSE 0,
                       !.addAfter = IF hasMetrics THEN Len(calls) ELSE -1]

\* A destructor whose loop stops one block short.
RECURSIVE freeBlocksButLast(_, _, _)
freeBlocksButLast(lv, blks, i) ==
  IF i + 1 < Len(blks) THEN freeBlocksButLast(free(lv, blks[i + 1]), blks, i + 1)
  ELSE lv

\* BlockBuffer::~BlockBuffer: the outstanding allocations once every owned
\* block has been freed.
RECURSIVE freeBlocks(_, _, _)
freeBlocks(lv, blks, i) ==
  IF i < Len(blks) THEN freeBlocks(free(lv, blks[i + 1]), blks, i + 1) ELSE lv

\* ------------------------------------------------------------ the state
\* hist: acqOnly - every call that changed the buffer since construction
\* was a getNextBlock; poolOk - the pool never returned null; filled -
\* every view returned was filled edge to edge before the next one was
\* asked for; pending - the last view returned is not filled yet;
\* acquired - the sum of the lengths of the views returned; produced - the
\* cells the producer wrote, in order; runEnd - the logical offset where
\* the last view of the current run of getNextBlock calls ended (-1: no
\* run, a resize ends it); view - the view the producer is to fill.
NoHist == [acqOnly |-> FALSE, poolOk |-> FALSE, filled |-> FALSE,
           pending |-> FALSE, view |-> NoView, acquired |-> 0,
           produced |-> <<>>, runEnd |-> -1]

Call(op, arg, err) ==
  [op |-> op, arg |-> arg, err |-> err, view |-> NoView, writes |-> <<>>,
   mallocs |-> 0, supply |-> 0, metrics |-> FALSE, ioBefore |-> 0,
   ioAfter |-> 0, addAfter |-> -1, chunk |-> NullPtr, again |-> FALSE]

\* No call is in progress and the caller holds no result.
Idle == Call("idle", 0, "none")

Commit(r) ==
  /\ blocks' = r.blocks
  /\ currentSize' = r.currentSize
  /\ currentCapacity' = r.currentCapacity
  /\ live' = r.live

\* The logical offset of the first byte of view v, given the owned blocks
\* (-1 when v points into none of them).
LogicalStart(blks, v) ==
  IF \E i \in 1..Len(blks) : blks[i] = v.addr
  THEN LET i == CHOOSE i \in 1..Len(blks) : blks[i] = v.addr
       IN (i - 1) * blockSize + v.off
  ELSE -1

\* A constructor without the check of the block size.
ConstructUnchecked(b, k) ==
  /\ blockSize = b
  /\ LET r == reserve([blocks |-> <<>>, currentSize |-> 0,
                       currentCapacity |-> 0, live |-> {}, supply |-> k,
                       mallocs |-> 0, err |-> "none"], b)
     IN /\ blocks = r.blocks
        /\ currentSize = r.currentSize
        /\ currentCapacity = r.currentCapacity
        /\ live = r.live
        /\ status = "live"
        /\ last = [Call("ctor", b, "none") EXCEPT !.mallocs = r.mallocs,
                                                  !.supply = k]
        /\ hist = [NoHist EXCEPT !.acqOnly = TRUE, !.poolOk = k > 0,
                                 !.filled = TRUE]

\* BlockBuffer::BlockBuffer
Construct(b, k) ==
  /\ blockSize = b
  /\ IF b = 0
     THEN /\ blocks = <<>> /\ currentSize = 0 /\ currentCapacity = 0
          /\ live = {}
          /\ status = "ctor_failed"
          /\ last = Call("ctor", b, "logic_error")
          /\ hist = NoHist
     ELSE LET r == reserve([blocks |-> <<>>, currentSize |-> 0,
                            currentCapacity |-> 0, live |-> {}, supply |-> k,
                            mallocs |-> 0, err |-> "none"], b)
          IN /\ blocks = r.blocks
             /\ currentSize = r.currentSize
             /\ currentCapacity = r.currentCapacity
             /\ live = r.live
             /\ status = "live"
             /\ last = [Call("ctor", b, "none") EXCEPT !.mallocs = r.mallocs,
                                                       !.supply = k]
             /\ hist = [NoHist EXCEPT !.acqOnly = TRUE, !.poolOk = k > 0,
                                      !.filled = TRUE]

\* No thread is flushing another buffer and no read adapter is open.
NoMetrics == [IOCount |-> 0, initial |-> 0]
NoFlush == <<>>
NoStream == [next |-> 0, releases |-> <<>>, closed |-> FALSE]

Init ==
  /\ \E b \in BlockSizes, k \in 0..PoolCap : Construct(b, k)
  /\ sharedMetrics = NoMetrics /\ flush = NoFlush
  /\ readBuffers = {} /\ in = NoStream

\* The blocks the pool can still supply to one call.
Supply == 0..(PoolCap - Cardinality(live))

\* The sizes asked of reserve and resize: every size up to MaxBlocks small
\* blocks, and for the large block nothing, one byte more than a block,
\* and MaxBlocks blocks.
Targets ==
  IF blockSize <= MaxBlockSize
  THEN 0..(MaxBlocks * blockSize)
  ELSE {0, blockSize + 1, MaxBlocks * blockSize}

\* The natural write sizes tried: 0 (rejected); for small blocks the small
\* ones and one above MAX_CHUNK_SIZE; for the large block the 100 and 1024
\* of the documented scenarios.
NaturalSizes ==
  IF blockSize <= MaxBlockSize
  THEN (0..MaxNatural) \cup {MAX_CHUNK_SIZE + 1}
  ELSE {0, 100, 1024}

\* What a call other than getNextBlock leaves of the producer's history.
Broken == [NoHist EXCEPT !.pending = hist.pending, !.view = hist.view]

Reserve(newCapacity, k) ==
  /\ status = "live" /\ last = Idle
  /\ LET r == reserve(Frame(k), newCapacity)
     IN /\ Commit(r)
        /\ last' = [Call("reserve", newCapacity, r.err) EXCEPT
                      !.mallocs = r.mallocs, !.supply = k]
  /\ hist' = [Broken EXCEPT !.runEnd = hist.runEnd]
  /\ UNCHANGED <<blockSize, status>>
  /\ UNCHANGED <<flushVars, adapterVars>>

Resize(size, k) ==
  /\ status = "live" /\ last = Idle
  /\ LET r == resize(Frame(k), size)
     IN /\ Commit(r)
        /\ last' = [Call("resize", size, r.err) EXCEPT
                      !.mallocs = r.mallocs, !.supply = k]
  /\ hist' = Broken
  /\ UNCHANGED <<blockSize, status>>
  /\ UNCHANGED <<flushVars, adapterVars>>

GetBlock(blockIndex) ==
  /\ status = "live" /\ last = Idle
  /\ LET r == getBlock(Frame(0), blockIndex)
     IN last' = [Call("getBlock", blockIndex, r.err) EXCEPT !.view = r.view]
  /\ UNCHANGED <<blockSize, blocks, currentSize, currentCapacity, live,
                 status, hist>>
  /\ UNCHANGED <<flushVars, adapterVars>>

GetNextBlock(k) ==
  /\ status = "live" /\ last = Idle
  /\ currentSize < currentCapacity \/ Len(blocks) < MaxBlocks
  /\ LET r == getNextBlock(Frame(k))
         ok == r.s.err = "none"
         end == LogicalStart(r.s.blocks, r.view) + r.view.size
     IN /\ Commit(r.s)
        /\ last' = [Call("getNextBlock", 0, r.s.err) EXCEPT
                      !.view = r.view, !.mallocs = r.s.mallocs,
                      !.supply = k]
        /\ hist' = IF ~ok
                   THEN [hist EXCEPT !.poolOk = FALSE]
                   ELSE IF ~hist.acqOnly
                        THEN [hist EXCEPT !.pending = TRUE, !.view = r.view,
                                          !.runEnd = end]
                        ELSE [hist EXCEPT !.acquired = @ + r.view.size,
                                          !.filled = @ /\ ~hist.pending,
                                          !.produced = IF hist.filled /\ ~hist.pending
                                                       THEN @ ELSE <<>>,
                                          !.pending = TRUE, !.view = r.view,
                                          !.runEnd = end]
  /\ UNCHANGED <<blockSize, status>>
  /\ UNCHANGED <<flushVars, adapterVars>>

\* The producer writes the first len bytes of the view the last
\* getNextBlock returned (all of it: edge to edge).  Its cells are recorded
\* as long as every view before this one was filled edge to edge.
Produce(len) ==
  /\ status = "live" /\ last = Idle
  /\ hist.pending
  /\ len \in 1..hist.view.size
  /\ hist' = IF ~hist.acqOnly
             THEN [hist EXCEPT !.pending = FALSE, !.view = NoView]
             ELSE IF ~hist.filled
                  THEN [hist EXCEPT !.pending = FALSE, !.view = NoView,
                                    !.produced = <<>>]
                  ELSE [hist EXCEPT !.pending = FALSE, !.view = NoView,
                                    !.filled = len = hist.view.size,
                                    !.produced = @ \o Range(hist.view.addr,
                                                            hist.view.off, len)]
  /\ UNCHANGED <<blockSize, blocks, currentSize, currentCapacity, live,
                 status, last>>
  /\ UNCHANGED <<flushVars, adapterVars>>

\* A writeTo that leaves the buffer empty once it has flushed it.
WriteToClears(naturalSize, failAt, metrics, pool) ==
  /\ status = "live"
  /\ \/ last = Idle
     \/ /\ last.op = "writeTo" /\ last.err = "none" /\ ~last.again
        /\ naturalSize = last.arg /\ failAt = 0
        /\ (metrics >= 0) = last.metrics
        /\ pool \in {"unasked", "supplies"}
  /\ failAt # 0 => Cardinality(live) = Len(blocks)
  /\ LET hasMetrics == metrics >= 0
         io == IF hasMetrics THEN metrics ELSE 0
         r == writeTo(Frame(IF pool = "supplies" THEN 1 ELSE 0), naturalSize,
                      failAt, hasMetrics, pool = "null_works")
     IN /\ live' = r.live
        /\ status' = IF r.died THEN "crashed" ELSE status
        /\ last' = [Call("writeTo", naturalSize, r.err) EXCEPT
                      !.writes = r.writes, !.mallocs = r.mallocs,
                      !.metrics = hasMetrics, !.ioBefore = io,
                      !.ioAfter = io + r.added, !.addAfter = r.addAfter,
                      !.chunk = r.chunk, !.again = last.op = "writeTo"]
        /\ currentSize' = IF r.err = "none" THEN 0 ELSE currentSize
  /\ UNCHANGED <<blockSize, blocks, currentCapacity, hist>>
  /\ UNCHANGED <<flushVars, adapterVars>>

\* metrics: -1 for a null metrics pointer, else the value IOCount holds.
\* pool: whether the pool supplies the chunk and, if not, what copying
\* through the null chunk does.  The caller may flush once more, to the
\* same sink, right after a writeTo that completed.  A sink write raises
\* only as long as no chunk has leaked: the chunks leaked are bounded by 1.
WriteTo(naturalSize, failAt, metrics, pool) ==
  /\ status = "live"
  /\ \/ last = Idle
     \/ /\ last.op = "writeTo" /\ last.err = "none" /\ ~last.again
        /\ naturalSize = last.arg /\ failAt = 0
        /\ (metrics >= 0) = last.metrics
        /\ pool \in {"unasked", "supplies"}
  /\ failAt # 0 => Cardinality(live) = Len(blocks)
  /\ LET hasMetrics == metrics >= 0
         io == IF hasMetrics THEN metrics ELSE 0
         r == writeTo(Frame(IF pool = "supplies" THEN 1 ELSE 0), naturalSize,
                      failAt, hasMetrics, pool = "null_works")
     IN /\ live' = r.live
        /\ status' = IF r.died THEN "crashed" ELSE status
        /\ last' = [Call("writeTo", naturalSize, r.err) EXCEPT
                      !.writes = r.writes, !.mallocs = r.mallocs,
                      !.metrics = hasMetrics, !.ioBefore = io,
                      !.ioAfter = io + r.added, !.addAfter = r.addAfter,
                      !.chunk = r.chunk, !.again = last.op = "writeTo"]
  /\ UNCHANGED <<blockSize, blocks, currentSize, currentCapacity, hist>>
  /\ UNCHANGED <<flushVars, adapterVars>>

Destroy ==
  /\ status = "live" /\ last = Idle
  /\ live' = freeBlocks(live, blocks, 0)
  /\ blocks' = <<>>
  /\ currentSize' = 0
  /\ currentCapacity' = 0
  /\ status' = "destroyed"
  /\ last' = Call("dtor", Len(blocks), "none")
  /\ hist' = NoHist
  /\ UNCHANGED blockSize
  /\ UNCHANGED <<flushVars, adapterVars>>

\* The caller takes the result of the call (the value returned or the
\* exception raised) and goes on.
Resume ==
  /\ status # "crashed" /\ last # Idle
  /\ last' = Idle
  /\ UNCHANGED <<blockSize, blocks, currentSize, currentCapacity, live,
                 status, hist>>
  /\ UNCHANGED <<flushVars, adapterVars>>

\* Whether writeTo, given natural write size naturalSize, reaches the
\* malloc of its scratch chunk.
asksChunk(s, naturalSize) ==
  /\ s.currentSize # 0
  /\ chunkSizeOf(naturalSize) # 0
  /\ ~(getBlockNumber(s) = 1 /\ s.currentSize <= chunkSizeOf(naturalSize))

\* What the pool does with writeTo's request for a chunk, when it makes one.
PoolModes(naturalSize) ==
  IF ~asksChunk(Frame(0), naturalSize) THEN {"unasked"}
  ELSE IF PoolCap - Cardinality(live) > 0
       THEN {"supplies", "null_dies", "null_works"}
       ELSE {"null_dies", "null_works"}

Next ==
  \/ \E t \in Targets, k \in Supply : Reserve(t, k)
  \/ \E t \in Targets, k \in Supply : Resize(t, k)
  \/ \E i \in 0..MaxBlocks : GetBlock(i)
  \/ \E k \in Supply : GetNextBlock(k)
  \/ \E len \in {1, 10, hist.view.size} : Produce(len)
  \/ \E n \in NaturalSizes, f \in FailAts, m \in MetricsArgs :
       \E pool \in PoolModes(n) : WriteTo(n, f, m, pool)
  \/ Destroy
  \/ Resume

Spec == Init /\ [][Next]_vars

\* ------------------------------------- buffers flushed by their own threads
\* Each thread owns one buffer, its pool and its sink, and calls writeTo on
\* it with the WriterMetrics all of them share.  A step is what one thread
\* does between two points where another thread can run: the start of
\* writeTo up to its first output->write, one output->write, the
\* IOCount.fetch_add, the raising of an error.
Threads == {1, 2}

\* The buffer a thread flushes: constructed on a pool of its own, then
\* resized to size.
OwnBuffer(size) ==
  resize(reserve([blocks |-> <<>>, currentSize |-> 0, currentCapacity |-> 0,
                  live |-> {}, supply |-> PoolCap, mallocs |-> 0,
                  err |-> "none"], blockSize), size)

\* The sizes of those buffers and the natural write sizes of their sinks.
FlushSizes == {0, 1, MaxBlocks * blockSize}
FlushNaturals == {0, 1, MaxNatural}

\* What writeTo does in thread t, run alone.
Plan(t) ==
  writeTo([flush[t].buf EXCEPT !.supply = 1], flush[t].natural,
          flush[t].failAt, TRUE, FALSE)

FlushInit ==
  /\ blockSize \in 1..MaxBlockSize
  /\ blocks = <<>> /\ currentSize = 0 /\ currentCapacity = 0 /\ live = {}
  /\ status = "absent" /\ last = Idle /\ hist = NoHist
  /\ sharedMetrics \in {[IOCount |-> n, initial |-> n] : n \in {0, 1}}
  /\ flush \in [Threads -> {[buf |-> OwnBuffer(size), natural |-> 0,
                             failAt |-> 0, pc |-> "ready", issued |-> 0,
                             ioCount |-> 0] : size \in FlushSizes}]
  /\ readBuffers = {} /\ in = NoStream

\* writeTo up to line 93: the empty buffer returns, a natural write size of
\* 0 raises, otherwise ioCount = 0 and the writes begin.
FlushBegin(t, naturalSize, failAt) ==
  /\ flush[t].pc = "ready"
  /\ LET r == writeTo([flush[t].buf EXCEPT !.supply = 1], naturalSize, failAt,
                      TRUE, FALSE)
     IN flush' = [flush EXCEPT ![t] =
                    [@ EXCEPT !.natural = naturalSize, !.failAt = failAt,
                              !.ioCount = 0,
                              !.pc = IF flush[t].buf.currentSize = 0 THEN "done"
                                     ELSE IF r.err = "logic_error" THEN "failed"
                                     ELSE "writing"]]
  /\ UNCHANGED <<bufferVars, sharedMetrics, adapterVars>>

\* One output->write that returns, and the ++ioCount after it.
FlushWrite(t) ==
  /\ flush[t].pc = "writing"
  /\ flush[t].issued < Len(Plan(t).writes)
  /\ flush' = [flush EXCEPT ![t] = [@ EXCEPT !.issued = @ + 1,
                                             !.ioCount = @ + 1]]
  /\ UNCHANGED <<bufferVars, sharedMetrics, adapterVars>>

\* The output->write that raises.
FlushRaise(t) ==
  /\ flush[t].pc = "writing"
  /\ flush[t].issued = Len(Plan(t).writes)
  /\ Plan(t).err # "none"
  /\ flush' = [flush EXCEPT ![t] = [@ EXCEPT !.pc = "failed"]]
  /\ UNCHANGED <<bufferVars, sharedMetrics, adapterVars>>

\* An addition made of a load and a store that another thread can come
\* between.
FlushAddTorn(t) ==
  /\ flush[t].pc \in {"writing", "storing"}
  /\ flush[t].issued = Len(Plan(t).writes)
  /\ Plan(t).err = "none"
  /\ IF flush[t].pc = "writing"
     THEN /\ flush' = [flush EXCEPT ![t] =
                         [@ EXCEPT !.ioCount = sharedMetrics.IOCount + @,
                                   !.pc = "storing"]]
          /\ UNCHANGED sharedMetrics
     ELSE /\ sharedMetrics' = [sharedMetrics EXCEPT !.IOCount = flush[t].ioCount]
          /\ flush' = [flush EXCEPT ![t] = [@ EXCEPT !.pc = "done"]]
  /\ UNCHANGED <<bufferVars, adapterVars>>

\* metrics->IOCount.fetch_add(ioCount) after the last write, and the return.
FlushAdd(t) ==
  /\ flush[t].pc = "writing"
  /\ flush[t].issued = Len(Plan(t).writes)
  /\ Plan(t).err = "none"
  /\ sharedMetrics' = [sharedMetrics EXCEPT !.IOCount = @ + flush[t].ioCount]
  /\ flush' = [flush EXCEPT ![t] = [@ EXCEPT !.pc = "done"]]
  /\ UNCHANGED <<bufferVars, adapterVars>>

FlushNext ==
  \/ \E t \in Threads, n \in FlushNaturals, f \in FailAts : FlushBegin(t, n, f)
  \/ \E t \in Threads : FlushWrite(t)
  \/ \E t \in Threads : FlushRaise(t)
  \/ \E t \in Threads : FlushAdd(t)

FlushSpec == FlushInit /\ [][FlushNext]_vars

\* ------------------------------------------------- the zero-copy adapter
\* ZeroCopyAdapter of ZeroCopyShims.java.  A ByteBuffer is the number of
\* the in.read call that returned it (buffers are told apart by identity);
\* in.next is the number of buffers read so far, in.releases[b] the number
\* of in.releaseBuffer(b) calls the stream has received, in.closed whether
\* in.close() was called.
MaxBuffers == 4

Buffers == 1..MaxBuffers

AdapterInit ==
  /\ blockSize = 1
  /\ blocks = <<>> /\ currentSize = 0 /\ currentCapacity = 0 /\ live = {}
  /\ status = "absent" /\ last = Idle /\ hist = NoHist
  /\ sharedMetrics = NoMetrics /\ flush = NoFlush
  /\ readBuffers = {}
  /\ in = [next |-> 0, releases |-> [b \in Buffers |-> 0], closed |-> FALSE]

\* in.releaseBuffer(k) for every k of the set bufs.
releaseEach(stream, bufs) ==
  [stream EXCEPT !.releases = [b \in Buffers |->
                                 IF b \in bufs THEN @[b] + 1 ELSE @[b]]]

\* ZeroCopyAdapter.readBuffer
readBuffer ==
  /\ ~in.closed /\ in.next < MaxBuffers
  /\ LET bb == in.next + 1
     IN /\ in' = [in EXCEPT !.next = bb]
        /\ readBuffers' = readBuffers \cup {bb}
  /\ UNCHANGED <<bufferVars, flushVars>>

\* ZeroCopyAdapter.releaseBuffer(buffer), called by the holder of a buffer
\* readBuffer returned, once per buffer.
releaseBuffer(buffer) ==
  /\ ~in.closed
  /\ buffer \in 1..in.next /\ in.releases[buffer] = 0
  /\ in' = releaseEach(in, {buffer})
  /\ UNCHANGED <<bufferVars, flushVars, readBuffers>>

\* ZeroCopyAdapter.releaseAllBuffers
releaseAllBuffers ==
  /\ ~in.closed
  /\ in' = releaseEach(in, readBuffers)
  /\ readBuffers' = {}
  /\ UNCHANGED <<bufferVars, flushVars>>

\* ZeroCopyAdapter.close
close ==
  /\ ~in.closed
  /\ in' = [releaseEach(in, readBuffers) EXCEPT !.closed = TRUE]
  /\ readBuffers' = {}
  /\ UNCHANGED <<bufferVars, flushVars>>

AdapterNext ==
  \/ readBuffer
  \/ \E b \in Buffers : releaseBuffer(b)
  \/ releaseAllBuffers
  \/ close

AdapterSpec == AdapterInit /\ [][AdapterNext]_vars
\* ------------------------------------------------------------ the claims
RECURSIVE Flatten(_)
Flatten(ws) == IF ws = <<>> THEN <<>> ELSE Head(ws) \o Flatten(Tail(ws))

CeilDiv(a, b) == IF a % b = 0 THEN a \div b ELSE a \div b + 1

Lengths(ws) == [i \in 1..Len(ws) |-> Len(ws[i])]

\* The producer has only called getNextBlock and has filled every view it
\* got edge to edge.
EdgeToEdge == hist.acqOnly /\ hist.filled /\ ~hist.pending

Flushed == last.op = "writeTo" /\ last.err = "none"

\* The addresses of the owned blocks.
Owned == {blocks[i] : i \in 1..Len(blocks)}

\* C1: round trip.  When the producer has only called getNextBlock and
\* filled every view edge to edge, a writeTo that completes (natural write
\* size >= 1) passes to the sink, in order, exactly the bytes the producer
\* wrote: the same cells in the same order, none of them twice.
C1_RoundTrip ==
  (Flushed /\ last.arg >= 1 /\ EdgeToEdge) =>
    /\ Flatten(last.writes) = hist.produced
    /\ Len(hist.produced) = hist.acquired
    /\ \A i, j \in 1..Len(hist.produced) :
         i # j => hist.produced[i] # hist.produced[j]

\* C1's case: two blocks of two bytes flushed in chunks of three bytes, so
\* that a chunk straddles the two blocks.
C1_Witness ==
  /\ Flushed /\ EdgeToEdge
  /\ blockSize = 2 /\ last.arg = 3 /\ Len(hist.produced) = 4
  /\ Lengths(last.writes) = <<3, 1>>

\* C2: a writeTo that completes issues ceil(usedSize / chunkSize) sink
\* writes, chunkSize = min(natural write size, 1 GiB): none when usedSize
\* is 0, every write but the last of chunkSize bytes, the last of the
\* remaining 1..chunkSize bytes; three full blocks of 64 bytes and natural
\* write size 100 give writes of 100 and 92 bytes.
C2_WriteCount ==
  Flushed =>
    IF currentSize = 0 THEN last.writes = <<>>
    ELSE LET chunkSize == IF last.arg <= MAX_CHUNK_SIZE THEN last.arg
                          ELSE MAX_CHUNK_SIZE
             n == Len(last.writes)
         IN /\ last.arg >= 1
            /\ n = CeilDiv(currentSize, chunkSize)
            /\ \A i \in 1..(n - 1) : Len(last.writes[i]) = chunkSize
            /\ Len(last.writes[n]) = currentSize - chunkSize * (n - 1)
            /\ Len(last.writes[n]) \in 1..chunkSize
            /\ (blockSize = 64 /\ currentSize = 192 /\ last.arg = 100) =>
                 Lengths(last.writes) = <<100, 92>>

\* C2's case: three full blocks of 64 bytes flushed with natural write
\* size 100.
C2_Witness ==
  /\ Flushed /\ blockSize = 64 /\ currentSize = 192 /\ last.arg = 100
  /\ Len(blocks) = 3 /\ Len(last.writes) = 2

\* The smallest multiple of b that is >= n.
SmallestMultiple(b, n) == CeilDiv(n, b) * b

\* A freshly constructed buffer on which only getNextBlock was called, with
\* a pool that never returned null.
FreshRun == hist.acqOnly /\ hist.poolOk

\* C3 as stated: after zero or more getNextBlock calls on a fresh buffer
\* the capacity is the smallest multiple of the block size that is >= the
\* sum of the view lengths.
C3_AsStated ==
  FreshRun => currentCapacity = SmallestMultiple(blockSize, hist.acquired)

\* C3 amended: the capacity is the smallest positive multiple of the block
\* size that is >= the sum of the view lengths (one block after zero
\* calls, which the constructor reserves).
C3_Capacity ==
  FreshRun =>
    currentCapacity = IF hist.acquired = 0 THEN blockSize
                      ELSE SmallestMultiple(blockSize, hist.acquired)

\* C3's case: two getNextBlock calls on a fresh buffer.
C3_Witness ==
  /\ FreshRun /\ last.op = "getNextBlock" /\ last.err = "none"
  /\ hist.acquired = 2 * blockSize /\ Len(blocks) = 2

\* A getNextBlock call returns a view.
AcquireStep == last = Idle /\ last'.op = "getNextBlock" /\ last'.err = "none"

\* C4: each view getNextBlock returns starts at the logical offset usedSize
\* had before the call and ends at the usedSize after it, lies inside one
\* owned block, and, within a run of getNextBlock calls that no resize
\* interrupts, begins where the previous view ended.
C4_Contiguous ==
  [][AcquireStep =>
       LET v == last'.view
           start == LogicalStart(blocks', v)
       IN /\ \E i \in 1..Len(blocks') : blocks'[i] = v.addr
          /\ start = currentSize
          /\ start + v.size = currentSize'
          /\ v.size >= 1 /\ v.off + v.size <= blockSize
          /\ hist.runEnd # -1 => start = hist.runEnd]_vars

\* C4's case: the third view of a run, in a block of its own.
C4_Witness ==
  /\ last.op = "getNextBlock" /\ last.err = "none" /\ hist.acqOnly
  /\ hist.acquired = 3 * blockSize /\ last.view.addr = blocks[3]

\* A getBlock call.
GetBlockStep == last = Idle /\ last'.op = "getBlock"

\* C5: getBlock(index) fails with an out-of-range error exactly when
\* index >= ceil(usedSize / blockSize) and changes no state; otherwise it
\* returns the view that starts at the index-th owned block and has
\* min(usedSize - index * blockSize, blockSize) bytes, blockSize for every
\* index but the last.
C5_GetBlock ==
  [][GetBlockStep =>
       LET index == last'.arg
           number == CeilDiv(currentSize, blockSize)
           v == last'.view
       IN /\ UNCHANGED <<blockSize, blocks, currentSize, currentCapacity, live>>
          /\ IF index >= number
             THEN last'.err = "out_of_range" /\ v = NoView
             ELSE /\ last'.err = "none"
                  /\ v.addr = blocks[index + 1] /\ v.off = 0
                  /\ v.size = IF currentSize - index * blockSize < blockSize
                              THEN currentSize - index * blockSize
                              ELSE blockSize
                  /\ index < number - 1 => v.size = blockSize]_vars

\* C5's case: the partly used last block of a buffer of several blocks.
C5_Witness ==
  /\ last.op = "getBlock" /\ last.err = "none" /\ last.arg >= 1
  /\ last.view.size < blockSize /\ last.view.size >= 1
Max(a, b) == IF a >= b THEN a ELSE b

\* A resize call.
ResizeStep == last = Idle /\ last'.op = "resize"

\* C6: resize(targetSize) sets usedSize to targetSize when the capacity
\* reached is >= targetSize (also when that shrinks usedSize); otherwise it
\* fails with a logic error and usedSize keeps its value.
C6_Resize ==
  [][ResizeStep =>
       LET targetSize == last'.arg
       IN /\ currentCapacity' >= currentCapacity
          /\ IF currentCapacity' >= targetSize
             THEN last'.err = "none" /\ currentSize' = targetSize
             ELSE last'.err = "logic_error" /\ currentSize' = currentSize]_vars

\* C6's case: a resize that fails after the pool supplied some of the
\* blocks it needed, on a buffer that holds bytes.
C6_Witness ==
  /\ last.op = "resize" /\ last.err = "logic_error"
  /\ last.mallocs >= 2 /\ currentSize > 0
  /\ currentCapacity < last.arg

\* A reserve call.
ReserveStep == last = Idle /\ last'.op = "reserve"

\* C7: reserve(targetCapacity) raises no error and leaves usedSize alone;
\* with a pool able to supply k more blocks the capacity becomes
\* min(max(old, ceil(target / blockSize) * blockSize), old + k * blockSize);
\* it asks the pool once per block added, once more when it stops on a
\* null, and not at all when old >= target.
C7_Reserve ==
  [][ReserveStep =>
       LET target == last'.arg
           k == last'.supply
           old == currentCapacity
           got == Min(Max(old, CeilDiv(target, blockSize) * blockSize),
                      old + k * blockSize)
       IN /\ last'.err = "none"
          /\ currentSize' = currentSize
          /\ currentCapacity' = got
          /\ last'.mallocs = (got - old) \div blockSize
                             + (IF got < target THEN 1 ELSE 0)
          /\ old >= target =>
               last'.mallocs = 0 /\ UNCHANGED <<blocks, live>>]_vars

\* C7's case: the pool supplies one block and then returns null.
C7_Witness ==
  /\ last.op = "reserve" /\ last.err = "none"
  /\ last.supply = 1 /\ last.mallocs = 2 /\ currentCapacity < last.arg

\* A getNextBlock call.
NextBlockStep == last = Idle /\ last'.op = "getNextBlock"

\* C8: getNextBlock fails exactly when usedSize equals the capacity and the
\* pool returns null for the one block it asks for; it then raises the
\* resize logic error, returns no view and leaves usedSize, the capacity
\* and the blocks as they were.  Otherwise it returns a view.
C8_NextBlockFails ==
  [][NextBlockStep =>
       /\ (last'.err # "none") <=>
            (currentSize = currentCapacity /\ last'.supply = 0)
       /\ last'.err \in {"none", "logic_error"}
       /\ last'.mallocs = IF currentSize = currentCapacity THEN 1 ELSE 0
       /\ last'.err # "none" =>
            /\ last'.view = NoView
            /\ UNCHANGED <<blocks, currentSize, currentCapacity, live>>
       /\ last'.err = "none" => last'.view # NoView]_vars

\* C8's case: a full buffer holding bytes, and the pool returns null.
C8_Witness ==
  /\ last.op = "getNextBlock" /\ last.err = "logic_error"
  /\ currentSize = currentCapacity /\ currentSize > 0

\* writeTo was called with a sink whose natural write size is 0.
ZeroNatural == last.op = "writeTo" /\ last.arg = 0

\* writeTo failed with the logic error before it wrote, allocated or
\* counted anything.
RejectedEarly ==
  /\ last.err = "logic_error"
  /\ last.writes = <<>>
  /\ last.mallocs = 0
  /\ last.ioAfter = last.ioBefore

\* C9 as stated: in every buffer state, an empty buffer included, writeTo
\* with natural write size 0 fails with a logic error before any sink
\* write, scratch allocation or metrics update.
C9_AsStated == ZeroNatural => RejectedEarly

\* C9 amended: so it does when usedSize > 0; on an empty buffer writeTo
\* returns without error, before it looks at the natural write size.
C9_ZeroNatural ==
  ZeroNatural =>
    IF currentSize > 0 THEN RejectedEarly
    ELSE last.err = "none" /\ last.writes = <<>> /\ last.mallocs = 0
         /\ last.ioAfter = last.ioBefore

\* C9's case: a buffer of several blocks, a metrics sink, natural write
\* size 0.
C9_Witness ==
  /\ ZeroNatural /\ last.err = "logic_error" /\ last.metrics
  /\ currentSize > blockSize

\* A writeTo call given a metrics sink.
Counted == last.op = "writeTo" /\ last.metrics

\* C11: with a metrics sink, a writeTo that completes leaves IOCount larger
\* by exactly the number of sink writes it issued, added at most once and
\* only after the last of them (an empty buffer issues no write and adds
\* nothing); a writeTo that fails (natural write size 0, a sink write that
\* raises) leaves IOCount as it was, also when writes of that flush had
\* reached the sink.
C11_MetricsAdded ==
  Counted =>
    IF last.err = "none"
    THEN /\ last.ioAfter = last.ioBefore + Len(last.writes)
         /\ last.addAfter \in {-1, Len(last.writes)}
         /\ Len(last.writes) > 0 => last.addAfter = Len(last.writes)
    ELSE last.ioAfter = last.ioBefore /\ last.addAfter = -1

\* C11's case: the second sink write of a flush raises after the first
\* reached the sink.
C11_Witness ==
  /\ Counted /\ last.err = "io_error" /\ Len(last.writes) = 1
  /\ last.ioAfter = last.ioBefore

\* Every thread's writeTo has returned or raised.
AllFlushed == \A t \in Threads : flush[t].pc \in {"done", "failed"}

\* The sink writes issued by the flushes of the threads in S that completed.
RECURSIVE IssuedByDone(_)
IssuedByDone(S) ==
  IF S = {} THEN 0
  ELSE LET t == CHOOSE t \in S : TRUE
       IN (IF flush[t].pc = "done" THEN flush[t].issued ELSE 0)
          + IssuedByDone(S \ {t})

ScenarioA ==
  /\ Flushed /\ last.arg = 1024 /\ blockSize = 64
  /\ hist.acqOnly /\ hist.acquired = 64 /\ ~hist.pending
  /\ Len(hist.produced) = 10

\* C13 as stated: scenario A issues exactly one sink write and delivers
\* exactly 10 bytes.
C13_AsStated ==
  ScenarioA =>
    Len(last.writes) = 1 /\ Len(Flatten(last.writes)) = 10

\* C13 amended: scenario A issues exactly one sink write and delivers the
\* 64 bytes of the whole view, the 10 bytes the producer wrote first:
\* getNextBlock counted the whole view as used.
C13_ScenarioA ==
  ScenarioA =>
    /\ currentSize = 64
    /\ Len(last.writes) = 1 /\ Len(Flatten(last.writes)) = 64
    /\ SubSeq(Flatten(last.writes), 1, 10) = hist.produced
    /\ Flatten(last.writes) = Range(blocks[1], 0, 64)

\* C13's case: scenario A, with a pool that never returned null.
C13_Witness == ScenarioA /\ hist.poolOk /\ Len(last.writes) = 1

\* The destructor runs.
DestroyStep == last = Idle /\ last'.op = "dtor"

\* blks is blks2 or a front part of it.
IsPrefix(blks, blks2) ==
  Len(blks) <= Len(blks2) /\ SubSeq(blks2, 1, Len(blks)) = blks

\* C14: over the life of a buffer, whatever reserve, resize, getNextBlock
\* and writeTo calls are made and whether they fail: the blocks obtained
\* are kept, in order, and none goes back to the pool before destruction
\* (every owned block is an outstanding allocation, no block is owned
\* twice); destruction frees every owned block, which is every block ever
\* obtained, once, and frees nothing else.
C14_BlocksReleasedOnce ==
  /\ [](status = "live" =>
          Owned \subseteq live /\ Cardinality(Owned) = Len(blocks))
  /\ [][/\ (status = "live" /\ status' = "live") =>
             (IsPrefix(blocks, blocks') /\ Owned \subseteq live')
        /\ DestroyStep =>
             /\ live' = live \ Owned
             /\ blocks' = <<>>
             /\ last'.arg = Cardinality(live \ live')]_vars

\* C14's case: a buffer of MaxBlocks blocks is destroyed.
C14_Witness ==
  /\ last.op = "dtor" /\ last.arg = MaxBlocks /\ status = "destroyed"
  /\ live = {}

\* A constructed buffer, before its destruction.
Alive == status \in {"live", "crashed"}

\* C15: in every state construction, reserve, resize, getNextBlock and
\* writeTo can reach, with a pool that returns null whenever it likes:
\* 0 <= usedSize <= capacity, capacity = number of owned blocks *
\* blockSize, and no step makes the capacity smaller.
C15_Sizes ==
  /\ [](Alive =>
          /\ 0 <= currentSize /\ currentSize <= currentCapacity
          /\ currentCapacity = Len(blocks) * blockSize)
  /\ [][(Alive /\ Alive') => currentCapacity' >= currentCapacity]_vars

\* C15's case: the pool returned null to a resize that had obtained a
\* block, on a buffer whose last block is partly used.
C15_Witness ==
  /\ last.op = "resize" /\ last.err = "logic_error" /\ last.mallocs = 2
  /\ currentSize % blockSize # 0 /\ currentSize < currentCapacity

\* C16: constructing a buffer with block size 0 fails with a logic error,
\* asks the pool for nothing and leaves no block owned (and no other block
\* size makes the constructor fail).
C16_ZeroBlockSize ==
  /\ blockSize = 0 <=> status = "ctor_failed"
  /\ status = "ctor_failed" =>
       /\ blocks = <<>> /\ live = {} /\ currentCapacity = 0
       /\ last.op = "ctor" =>
            last.err = "logic_error" /\ last.mallocs = 0
  /\ (last.op = "ctor" /\ last.err # "none") => blockSize = 0

\* C16's case: the constructor has just failed on block size 0, with a
\* pool that would have supplied blocks.
C16_Witness ==
  /\ last.op = "ctor" /\ last.arg = 0 /\ last.err = "logic_error"
  /\ status = "ctor_failed"

\* C17: for any readBuffer, releaseBuffer and releaseAllBuffers calls followed
\* by close: no buffer readBuffer returned is released to the stream
\* twice, releaseAllBuffers and close leave no buffer tracked, and once
\* close has returned every buffer readBuffer returned has been released
\* exactly once.
C17_ReleasedOnce ==
  /\ \A b \in Buffers : in.releases[b] <= 1
  /\ \A b \in Buffers : b > in.next => in.releases[b] = 0
  /\ in.closed =>
       /\ readBuffers = {}
       /\ \A b \in 1..in.next : in.releases[b] = 1

\* C18: a getNextBlock that returns.  When usedSize < capacity it asks the
\* pool for nothing, returns the view at block usedSize div blockSize,
\* offset usedSize mod blockSize, of blockSize - usedSize mod blockSize
\* bytes, and sets usedSize to (usedSize div blockSize + 1) * blockSize.
\* When usedSize = capacity the capacity grows by exactly one block,
\* usedSize by blockSize, and the view is the whole new block, which is
\* the block at index old usedSize div blockSize.
C18_AcquireCommit ==
  [][AcquireStep =>
       LET v == last'.view
           index == currentSize \div blockSize
           offset == currentSize % blockSize
       IN IF currentSize < currentCapacity
          THEN /\ last'.mallocs = 0
               /\ UNCHANGED <<blocks, currentCapacity, live>>
               /\ v = [addr |-> blocks[index + 1], off |-> offset,
                       size |-> blockSize - offset]
               /\ currentSize' = (index + 1) * blockSize
          ELSE /\ currentSize = currentCapacity
               /\ currentCapacity' = currentCapacity + blockSize
               /\ Len(blocks') = Len(blocks) + 1
               /\ IsPrefix(blocks, blocks')
               /\ blocks'[Len(blocks')] \notin live
               /\ live' = live \cup {blocks'[Len(blocks')]}
               /\ currentSize' = currentSize + blockSize
               /\ v = [addr |-> blocks'[index + 1], off |-> 0,
                       size |-> blockSize]
               /\ index + 1 = Len(blocks')]_vars

\* C18's case: getNextBlock on a buffer resized to a size inside its second
\* block returns the rest of that block.
C18_Witness ==
  /\ last.op = "getNextBlock" /\ last.err = "none" /\ last.mallocs = 0
  /\ Len(blocks) >= 2 /\ last.view.off > 0 /\ last.view.addr = blocks[2]
  /\ currentSize = 2 * blockSize

\* writeTo asked the pool for its scratch chunk and got null.
NullChunk == last.op = "writeTo" /\ last.mallocs = 1 /\ last.chunk = NullPtr

\* C19: when the pool returns null for the scratch chunk, writeTo ends in
\* an error raised to the caller that is not the sink's I/O error, having
\* copied nothing through the null chunk (the process lives), issued no
\* sink write and left IOCount alone.
C19_NullChunkFails ==
  NullChunk =>
    /\ last.err \notin {"none", "io_error", "segv"}
    /\ status = "live"
    /\ last.writes = <<>>
    /\ last.ioAfter = last.ioBefore

\* C20: writeTo changes nothing of the buffer, whether it returns at once,
\* takes the single-block path or the general path, or fails: usedSize,
\* the capacity and the blocks stay as they are, the blocks stay
\* allocated, and the scratch chunk it copies into is none of the blocks,
\* so their contents stay as well; a writeTo that completes right after a
\* writeTo that completed with the same natural write size passes the
\* same bytes to the sink in the same writes.
C20_ReadOnly ==
  [][last'.op = "writeTo" =>
       /\ UNCHANGED <<blockSize, blocks, currentSize, currentCapacity, hist>>
       /\ Owned \subseteq live'
       /\ last'.chunk \notin Owned
       /\ (Flushed /\ last'.err = "none" /\ last'.arg = last.arg) =>
            last'.writes = last.writes]_vars

\* C20's case: the second of two flushes of a buffer of several blocks,
\* through the general path.
C20_Witness ==
  /\ Flushed /\ Len(last.writes) >= 2 /\ last.chunk # NullPtr
  /\ currentSize > blockSize /\ last.again

\* C10: after writeTo returns or fails, the scratch chunk is back in the
\* pool: the pool's outstanding allocations are the owned blocks.
C10_ChunkReleased ==
  (last.op = "writeTo" /\ status = "live") => live = Owned
====
